---- MODULE Spec2Model ----
(***************************************************************************)
(* A model of app.py, the Streamlit front end of the hybrid song           *)
(* recommender: the data loaders (_read_csv_rel, _load_npz_rel,            *)
(* _np_load_rel, _try_download_if_missing), the artifact loading block,    *)
(* the mode selection, the two "Get Recommendations" branches and their    *)
(* display loops.  One run of the script is modelled, top to bottom, as    *)
(* Streamlit executes it for one interaction; what is on disk is observed  *)
(* where the script looks at it.  content_recommendation and               *)
(* HybridRecommenderSystem are imported by app.py from other modules; they *)
(* are modelled from spec.md (sections 3 and 4.1 to 4.5).                  *)
(***************************************************************************)
EXTENDS Integers, Sequences, FiniteSets, TLC

\* ------------------------------------------------------------------ bounds

\* Longest text a user types into a text input.
MaxLen == 1
\* top_k harness: largest catalog, largest k, largest score.
MaxN == 3
MaxK == 3
MaxScore == 2

\* ----------------------------------------------------------------- strings

\* The characters of the model: one letter in both cases, one lowercase only.
Chars == {"a", "A", "b"}

\* str.lower() on one character (app.py:192).
LowerChar(c) == IF c = "A" THEN "a" ELSE c

\* The uppercase of one character, as str.title() uses it (app.py:240).
UpperChar(c) == IF c = "a" THEN "A" ELSE IF c = "b" THEN "B" ELSE c

\* str.lower(): every character lowercased.
Lower(s) == [i \in DOMAIN s |-> LowerChar(s[i])]

\* Dropping the lowercasing (the text is used as typed).
NormalizeInputAsTyped(raw) == raw

\* song_name = song_name.lower() / artist_name = artist_name.lower().
NormalizeInput(raw) == Lower(raw)

\* str.title() on a single word: first character upper, the rest lower.
Title(s) == [i \in DOMAIN s |-> IF i = 1 THEN UpperChar(s[i]) ELSE LowerChar(s[i])]

\* What st.text_input can return: any text of at most MaxLen characters.
Texts == UNION {[1..n -> Chars] : n \in 0..MaxLen}

\* The choices of the k selectbox.
KChoices == {5, 10, 15, 20}

\* The values of the diversity slider.
DiversityValues == 1..9

\* The divisor of the diversity slider: weights are kept in tenths.
WeightScale == 10

\* Python's None, or a name not yet bound: the empty option; Some(x) holds x.
None == <<>>
Some(x) == <<x>>
Get(o) == o[1]

\* ---------------------------------------------------------------- artifacts

\* data/cleaned_data.csv: name, artist, f (the content attributes the feature
\* pipeline turns into a matrix row), tid (the track identifier).
FullCatalog ==
    << [name |-> <<"a">>, artist |-> <<"a">>, f |-> 0, tid |-> "t1"],
       [name |-> <<"a">>, artist |-> <<"b">>, f |-> 1, tid |-> "t2"],
       [name |-> <<"b">>, artist |-> <<"b">>, f |-> 3, tid |-> "t3"],
       [name |-> <<"b">>, artist |-> <<"a">>, f |-> 3, tid |-> "t4"] >>

\* data/cleaned_data_sample.csv: the small sample bundled with the repository.
SampleCatalog == SubSeq(FullCatalog, 1, 2)

\* data/collab_filtered_data.csv: the tracks with collaborative coverage.
FilteredCatalog == << FullCatalog[1], FullCatalog[3], FullCatalog[4] >>

\* The content feature matrix built from a catalog: one row per catalog row.
FeaturesOf(catalog) == [i \in DOMAIN catalog |-> catalog[i].f]

\* data/transformed_data.npz: built by the pipeline from cleaned_data.csv.
NpzFeatures == FeaturesOf(FullCatalog)

\* data/transformed_hybrid_data.npz: built from collab_filtered_data.csv.
HybridFeatures == FeaturesOf(FilteredCatalog)

\* data/track_ids.npy: the identifiers of the interaction matrix's columns.
TrackIds == << "t3", "t1", "t4" >>

\* data/interaction_matrix.npz: one item vector per column, in TrackIds order.
InteractionMatrix == << 2, 0, 1 >>

\* --------------------------------------------------- the recommender (spec)

Min(a, b) == IF a < b THEN a ELSE b

Abs(x) == IF x < 0 THEN 0 - x ELSE x

\* The similarity of two item vectors, largest for equal vectors.
Similarity(x, y) == 10 - Abs(x - y)

\* CatalogIndex.resolve: does some row match title and artist jointly?
Matches(catalog, title, artist) ==
    \E i \in DOMAIN catalog : catalog[i].name = title /\ catalog[i].artist = artist

\* CatalogIndex.resolve: the first row, in catalog order, matching both.
Resolve(catalog, title, artist) ==
    CHOOSE i \in DOMAIN catalog :
        /\ catalog[i].name = title /\ catalog[i].artist = artist
        /\ \A j \in DOMAIN catalog :
              (catalog[j].name = title /\ catalog[j].artist = artist) => i <= j

\* ContentSimilarityIndex.similarities: one score per matrix row.
ContentScores(matrix, row) == [j \in DOMAIN matrix |-> Similarity(matrix[row], matrix[j])]

\* The sequence 1..n.
Indices(n) == [i \in 1..n |-> i]

\* x put behind every entry of the sorted sequence s that scores at least as much.
InsertDesc(s, x, scores) ==
    LET p == Cardinality({i \in DOMAIN s : scores[s[i]] >= scores[x]})
    IN  SubSeq(s, 1, p) \o <<x>> \o SubSeq(s, p + 1, Len(s))

\* Stable sort of the rows idxs by descending score.
RECURSIVE SortDesc(_, _)
SortDesc(idxs, scores) ==
    IF idxs = <<>> THEN <<>>
    ELSE InsertDesc(SortDesc(SubSeq(idxs, 1, Len(idxs) - 1), scores),
                    idxs[Len(idxs)], scores)

\* A ranker that forgets to exclude the query's own row.
top_k_keeping_query(scores, exclude_index, k) ==
    LET sorted == SortDesc(Indices(Len(scores)), scores)
    IN  SubSeq(sorted, 1, Min(k, Len(sorted)))

\* RecommendationRanker.top_k: the rows other than exclude_index, by descending
\* score, ties in row order, the first k of them.
top_k(scores, exclude_index, k) ==
    LET pool   == SelectSeq(Indices(Len(scores)), LAMBDA i : i # exclude_index)
        sorted == SortDesc(pool, scores)
    IN  SubSeq(sorted, 1, Min(k, Len(sorted)))

\* The rows a recommender hands back: the ranked pool labelled 1..n, preceded,
\* when the recommender itself echoes the query, by the query's row labelled 0.
Frame(catalog, row, pool, echo) ==
    LET ranked == [r \in DOMAIN pool |->
                      [ind |-> r, name |-> catalog[pool[r]].name,
                       artist |-> catalog[pool[r]].artist]]
        own    == [ind |-> 0, name |-> catalog[row].name, artist |-> catalog[row].artist]
    IN  IF echo THEN <<own>> \o ranked ELSE ranked

\* content_recommendation(song_name, artist_name, songs_data, transformed_data, k):
\* resolve, score against every matrix row, rank, map back to catalog rows.  A
\* matrix that is not row-aligned with the catalog makes the row lookup fail.
content_recommendation(song_name, artist_name, catalog, matrix, k, echo) ==
    LET row  == Resolve(catalog, song_name, artist_name)
    IN  IF row \notin DOMAIN matrix THEN [status |-> "crash", rows |-> <<>>]
        ELSE LET pool == top_k(ContentScores(matrix, row), row, k)
             IN  IF \E r \in DOMAIN pool : pool[r] \notin DOMAIN catalog
                 THEN [status |-> "crash", rows |-> <<>>]
                 ELSE [status |-> "ok", rows |-> Frame(catalog, row, pool, echo)]

\* CollaborativeSimilarityIndex: the column of a track identifier, 0 when absent.
ColumnOf(ids, tid) ==
    IF \E c \in DOMAIN ids : ids[c] = tid
    THEN CHOOSE c \in DOMAIN ids : ids[c] = tid
    ELSE 0

\* HybridScorer.blend, in tenths: w * content + (1 - w) * collaborative.
Blend(content, collab, w) ==
    [j \in DOMAIN content |-> w * content[j] + (WeightScale - w) * collab[j]]

\* HybridRecommenderSystem(k, weight).give_recommendations(...).
give_recommendations(song_name, artist_name, catalog, matrix, ids, im, k, w, echo) ==
    LET row == Resolve(catalog, song_name, artist_name)
        col == ColumnOf(ids, catalog[row].tid)
    IN  IF col = 0 \/ \E j \in DOMAIN catalog : ColumnOf(ids, catalog[j].tid) = 0
        THEN [status |-> "crash", rows |-> <<>>]
        ELSE LET content == ContentScores(matrix, row)
                 collab  == [j \in DOMAIN catalog |->
                                Similarity(im[col], im[ColumnOf(ids, catalog[j].tid)])]
                 pool    == top_k(Blend(content, collab, w), row, k)
             IN  [status |-> "ok", rows |-> Frame(catalog, row, pool, echo)]

\* ------------------------------------------------------------------- state

VARIABLES
    pc,                       \* where the script run stands
    songs_data, transformed_data, track_ids, hybrid_available, filtered_data,
    interaction_matrix, transformed_hybrid_data,   \* the module-level artifacts
    song_input, artist_input, \* what the two text inputs returned
    song_name, artist_name, k, filtering_type, diversity, content_based_weight,
    button,                   \* what st.button returned
    call,                     \* the recommender invocation of this run, if any
    branch_reads,             \* the globals the button branch read
    recommendations,          \* the rows the display loop has still to visit
    rendered,                 \* what the display loop wrote, in order
    messages,                 \* st.write / st.warning texts of the button block
    ld,                       \* the loader call in progress
    env,                      \* what _try_download_if_missing found
    tk                        \* the top_k harness: its input and its result

vars == << pc, songs_data, transformed_data, track_ids, hybrid_available,
           filtered_data, interaction_matrix, transformed_hybrid_data,
           song_input, artist_input, song_name, artist_name, k, filtering_type,
           diversity, content_based_weight, button, call, branch_reads,
           recommendations, rendered, messages, ld, env, tk >>

artifacts == << songs_data, transformed_data, track_ids, hybrid_available,
                filtered_data, interaction_matrix, transformed_hybrid_data >>

widgets == << song_input, artist_input, song_name, artist_name, k, filtering_type,
              diversity, content_based_weight >>

outputs == << button, call, branch_reads, recommendations, rendered, messages >>

\* ------------------------------------------------------------------ loaders

\* A path on disk: a readable file, a Git LFS pointer, a file its reader cannot
\* parse (such as one cut short by a broken download), or nothing.
FileStates == {"ok", "lfs", "corrupt", "missing"}

\* data/data_urls.json: absent, not JSON, JSON that is no object, an object
\* without a URL for the file, with a placeholder URL, with a real URL.
UrlStates == {"absent", "unparsable", "notdict", "nourl", "placeholder", "url"}

\* requests.get: the body arrives, the status is an error, the stream breaks.
NetStates == {"ok", "http_error", "broken_stream"}

Loaders == {"_read_csv_rel", "_load_npz_rel", "_np_load_rel"}

\* What a path holds once it is readable.
FileContent(path) ==
    CASE path = "cleaned_data.csv" -> FullCatalog
      [] path = "collab_filtered_data.csv" -> FilteredCatalog
      [] path = "transformed_data.npz" -> NpzFeatures
      [] path = "track_ids.npy" -> TrackIds
      [] OTHER -> <<>>

IdleLoader ==
    [fn |-> "", path |-> "", file |-> "missing", phase |-> "idle", ret |-> "",
     attempts |-> 0, requests |-> 0, reads |-> 0, downloaded |-> "None",
     result |-> None]

\* The call fn(path), made with the path in state file.
Calling(fn, path, file, ret) ==
    [IdleLoader EXCEPT !.fn = fn, !.path = path, !.file = file,
                       !.phase = "enter", !.ret = ret]

\* _try_download_if_missing(path) in environment e: what it returns
\* ("True", "False", or "raise" for an exception it does not catch), the
\* number of network requests it makes and the state it leaves the path in.
TryDownload(file, e) ==
    IF e.urls = "absent" THEN [ret |-> "False", requests |-> 0, file |-> file]
    ELSE IF e.urls = "unparsable" THEN [ret |-> "False", requests |-> 0, file |-> file]
    ELSE IF e.urls = "notdict" THEN [ret |-> "raise", requests |-> 0, file |-> file]
    ELSE IF e.urls = "nourl" THEN [ret |-> "False", requests |-> 0, file |-> file]
    ELSE IF e.urls = "placeholder" THEN [ret |-> "False", requests |-> 0, file |-> file]
    ELSE IF e.dvc THEN [ret |-> "False", requests |-> 0, file |-> file]
    ELSE IF e.net = "ok" THEN [ret |-> "True", requests |-> 1, file |-> "ok"]
    ELSE IF e.net = "http_error" THEN [ret |-> "False", requests |-> 1, file |-> file]
    ELSE [ret |-> "False", requests |-> 1, file |-> "corrupt"]

\* The head of a loader (app.py:76-95, 102-104, 110-112): the LFS pointer check
\* of _read_csv_rel, then the first read.
LoaderEnter ==
    /\ pc = "loader" /\ ld.phase = "enter"
    /\ IF ld.fn = "_read_csv_rel" /\ ld.file = "lfs"
       THEN /\ ld' = [ld EXCEPT !.phase = "stopped"]
            /\ pc' = "stopped"
       ELSE IF ld.file = "missing"
       THEN /\ ld' = [ld EXCEPT !.phase = "download", !.reads = 1]
            /\ pc' = pc
       ELSE IF ld.file = "ok"
       THEN /\ ld' = [ld EXCEPT !.phase = "returned", !.reads = 1,
                                !.result = Some(FileContent(ld.path))]
            /\ pc' = pc
       ELSE /\ ld' = [ld EXCEPT !.phase = "crashed", !.reads = 1]
            /\ pc' = "crashed"
    /\ UNCHANGED << artifacts, widgets, outputs, env, tk >>

\* _try_download_if_missing (app.py:28-72), called from the except branch.
TryDownloadIfMissing ==
    /\ pc = "loader" /\ ld.phase = "download"
    /\ \E urls \in UrlStates, dvc \in BOOLEAN, net \in NetStates :
          LET e == [urls |-> urls, dvc |-> dvc, net |-> net]
              d == TryDownload(ld.file, e)
          IN  /\ env' = Some(e)
              /\ ld' = [ld EXCEPT !.attempts = @ + 1,
                                  !.requests = @ + d.requests,
                                  !.file = d.file,
                                  !.downloaded = d.ret,
                                  !.phase = IF d.ret = "raise" THEN "crashed"
                                            ELSE "resume"]
              /\ pc' = IF d.ret = "raise" THEN "crashed" ELSE pc
    /\ UNCHANGED << artifacts, widgets, outputs, tk >>

\* A loader that reads again whatever the download returned.
RereadsAfterDownloadAlways(downloaded) == TRUE

\* if _try_download_if_missing(path): read again.
RereadsAfterDownload(downloaded) == downloaded = "True"

\* The tail of a loader (app.py:97-99, 105-107, 113-115): the second read after
\* a download, or _st_list_data_dir_and_stop (app.py:17-26).
LoaderResume ==
    /\ pc = "loader" /\ ld.phase = "resume"
    /\ IF RereadsAfterDownload(ld.downloaded)
       THEN IF ld.file = "ok"
            THEN /\ ld' = [ld EXCEPT !.phase = "returned", !.reads = @ + 1,
                                     !.result = Some(FileContent(ld.path))]
                 /\ pc' = pc
            ELSE /\ ld' = [ld EXCEPT !.phase = "crashed", !.reads = @ + 1]
                 /\ pc' = "crashed"
       ELSE /\ ld' = [ld EXCEPT !.phase = "stopped"]
            /\ pc' = "stopped"
    /\ UNCHANGED << artifacts, widgets, outputs, env, tk >>

\* The top_k harness before it is given an input.
IdleTopK == [scores |-> <<>>, exclude_index |-> 0, k |-> 0, result |-> <<>>,
             applied |-> FALSE]

\* The state of a run before its first statement.
Fresh ==
    /\ songs_data = None /\ transformed_data = None /\ track_ids = None
    /\ hybrid_available = TRUE /\ filtered_data = None
    /\ interaction_matrix = None /\ transformed_hybrid_data = None
    /\ song_input = <<>> /\ artist_input = <<>>
    /\ song_name = <<>> /\ artist_name = <<>>
    /\ k = 0 /\ filtering_type = "" /\ diversity = 0
    /\ content_based_weight = None
    /\ button = FALSE /\ call = None /\ branch_reads = {} /\ recommendations = <<>>
    /\ rendered = <<>> /\ messages = {}
    /\ env = None

\* The loader harness: one call of one loader on a path in any state.
LoaderInit ==
    /\ Fresh
    /\ pc = "loader"
    /\ tk = IdleTopK
    /\ \E fn \in Loaders, file \in FileStates,
          path \in {"cleaned_data.csv", "transformed_data.npz", "track_ids.npy"} :
          ld = Calling(fn, path, file, "caller")

\* The loader hands its data to the caller.
LoaderReturnToCaller ==
    /\ pc = "loader" /\ ld.phase = "returned" /\ ld.ret = "caller"
    /\ pc' = "done"
    /\ UNCHANGED << artifacts, widgets, outputs, ld, env, tk >>

LoaderNext ==
    \/ LoaderEnter
    \/ TryDownloadIfMissing
    \/ LoaderResume
    \/ LoaderReturnToCaller

LoaderSpec == LoaderInit /\ [][LoaderNext]_vars

\* ------------------------------------------------------ the script: loading

\* songs_data (app.py:118-127): the full catalog when it is there, else the
\* bundled sample, else whatever _read_csv_rel can still get.
LoadSongs ==
    /\ pc = "load_songs"
    /\ \E cleaned \in FileStates, sample \in BOOLEAN :
          IF cleaned # "missing"
          THEN /\ ld' = Calling("_read_csv_rel", "cleaned_data.csv", cleaned, "songs_data")
               /\ pc' = "loader"
               /\ UNCHANGED songs_data
          ELSE IF sample
          THEN /\ songs_data' = Some(SampleCatalog)
               /\ pc' = "load_transformed"
               /\ UNCHANGED ld
          ELSE /\ ld' = Calling("_read_csv_rel", "cleaned_data.csv", "missing", "songs_data")
               /\ pc' = "loader"
               /\ UNCHANGED songs_data
    /\ UNCHANGED << transformed_data, track_ids, hybrid_available, filtered_data,
                    interaction_matrix, transformed_hybrid_data, widgets, outputs,
                    env, tk >>

\* A loader returns: the assignment at its call site (app.py:122/127, 154, 175).
LoaderReturn ==
    /\ pc = "loader" /\ ld.phase = "returned" /\ ld.ret # "caller"
    /\ songs_data' = IF ld.ret = "songs_data" THEN ld.result ELSE songs_data
    /\ filtered_data' = IF ld.ret = "filtered_data" THEN ld.result ELSE filtered_data
    /\ track_ids' = IF ld.ret = "track_ids" THEN ld.result ELSE track_ids
    /\ pc' = IF ld.ret = "songs_data" THEN "load_transformed"
             ELSE IF ld.ret = "filtered_data" THEN "load_interaction"
             ELSE "inputs"
    /\ ld' = IdleLoader
    /\ env' = None
    /\ UNCHANGED << transformed_data, hybrid_available, interaction_matrix,
                    transformed_hybrid_data, widgets, outputs, tk >>

\* transformed_data (app.py:130-143): the stored matrix when it is there, else
\* computed from songs_data; a failing computation stops the run.
LoadTransformed ==
    /\ pc = "load_transformed"
    /\ \E npz \in FileStates, computes \in BOOLEAN :
          IF npz = "ok"
          THEN /\ transformed_data' = Some(NpzFeatures)
               /\ pc' = "load_filtered"
          ELSE IF npz # "missing"
          THEN /\ pc' = "crashed"
               /\ UNCHANGED transformed_data
          ELSE IF computes
          THEN /\ transformed_data' = Some(FeaturesOf(Get(songs_data)))
               /\ pc' = "load_filtered"
          ELSE /\ pc' = "stopped"
               /\ UNCHANGED transformed_data
    /\ UNCHANGED << songs_data, track_ids, hybrid_available, filtered_data,
                    interaction_matrix, transformed_hybrid_data, widgets, outputs,
                    ld, env, tk >>

\* filtered_data (app.py:151-156).
LoadFiltered ==
    /\ pc = "load_filtered"
    /\ \E file \in FileStates :
          IF file # "missing"
          THEN /\ ld' = Calling("_read_csv_rel", "collab_filtered_data.csv", file,
                                "filtered_data")
               /\ pc' = "loader"
               /\ UNCHANGED hybrid_available
          ELSE /\ hybrid_available' = FALSE
               /\ pc' = "load_interaction"
               /\ UNCHANGED ld
    /\ UNCHANGED << songs_data, transformed_data, track_ids, filtered_data,
                    interaction_matrix, transformed_hybrid_data, widgets, outputs,
                    env, tk >>

\* interaction_matrix (app.py:158-163).
LoadInteraction ==
    /\ pc = "load_interaction"
    /\ \E file \in FileStates :
          IF file = "ok"
          THEN /\ interaction_matrix' = Some(InteractionMatrix)
               /\ pc' = "load_transformed_hybrid"
               /\ UNCHANGED hybrid_available
          ELSE IF file # "missing"
          THEN /\ pc' = "crashed"
               /\ UNCHANGED << interaction_matrix, hybrid_available >>
          ELSE /\ hybrid_available' = FALSE
               /\ pc' = "load_transformed_hybrid"
               /\ UNCHANGED interaction_matrix
    /\ UNCHANGED << songs_data, transformed_data, track_ids, filtered_data,
                    transformed_hybrid_data, widgets, outputs, ld, env, tk >>

\* transformed_hybrid_data (app.py:165-170).
LoadTransformedHybrid ==
    /\ pc = "load_transformed_hybrid"
    /\ \E file \in FileStates :
          IF file = "ok"
          THEN /\ transformed_hybrid_data' = Some(HybridFeatures)
               /\ pc' = "load_track_ids"
               /\ UNCHANGED hybrid_available
          ELSE IF file # "missing"
          THEN /\ pc' = "crashed"
               /\ UNCHANGED << transformed_hybrid_data, hybrid_available >>
          ELSE /\ hybrid_available' = FALSE
               /\ pc' = "load_track_ids"
               /\ UNCHANGED transformed_hybrid_data
    /\ UNCHANGED << songs_data, transformed_data, track_ids, filtered_data,
                    interaction_matrix, widgets, outputs, ld, env, tk >>

\* A script that leaves hybrid mode on when track_ids.npy is missing.
WithoutTrackIdsKept(available) == available

\* else: hybrid_available = False (app.py:176-177).
WithoutTrackIds(available) == FALSE

\* track_ids (app.py:172-177).
LoadTrackIds ==
    /\ pc = "load_track_ids"
    /\ \E file \in FileStates :
          IF file # "missing"
          THEN /\ ld' = Calling("_np_load_rel", "track_ids.npy", file, "track_ids")
               /\ pc' = "loader"
               /\ UNCHANGED hybrid_available
          ELSE /\ hybrid_available' = WithoutTrackIds(hybrid_available)
               /\ pc' = "inputs"
               /\ UNCHANGED ld
    /\ UNCHANGED << songs_data, transformed_data, track_ids, filtered_data,
                    interaction_matrix, transformed_hybrid_data, widgets, outputs,
                    env, tk >>

\* ------------------------------------------------------- the script: widgets

\* The two text inputs, lowercased, and the k selectbox (app.py:185-196).
ReadInputs ==
    /\ pc = "inputs"
    /\ \E s \in Texts, a \in Texts, kk \in KChoices :
          /\ song_input' = s
          /\ artist_input' = a
          /\ song_name' = NormalizeInput(s)
          /\ artist_name' = NormalizeInput(a)
          /\ k' = kk
    /\ pc' = "select_mode"
    /\ UNCHANGED << artifacts, filtering_type, diversity, content_based_weight,
                    outputs, ld, env, tk >>

\* A membership test on the title alone.
InCatalogByTitle(catalog, title, artist) ==
    \E i \in DOMAIN catalog : catalog[i].name = title

\* ((data["name"] == song_name) & (data["artist"] == artist_name)).any()
\* (app.py:202, 230).
InCatalog(catalog, title, artist) ==
    \E i \in DOMAIN catalog : catalog[i].name = title /\ catalog[i].artist = artist

\* A guard that looks at filtered_data only.
HybridSelectableByData(available, data) == data # None

\* if hybrid_available and filtered_data is not None (app.py:200).
HybridSelectable(available, data) == available /\ data # None

\* filtering_type (app.py:199-205).
SelectedMode(available, data, title, artist) ==
    IF HybridSelectable(available, data) /\ InCatalog(Get(data), title, artist)
    THEN "Hybrid Recommender System"
    ELSE "Content-Based Filtering"

\* A weight that follows the slider instead of opposing it.
ContentWeightDirect(d) == d

\* content_based_weight = 1 - (diversity / 10), in tenths (app.py:214).
ContentWeight(d) == WeightScale - d

\* The mode, the diversity slider and the weight (app.py:198-225).
SelectMode ==
    /\ pc = "select_mode"
    /\ filtering_type' = SelectedMode(hybrid_available, filtered_data, song_name,
                                      artist_name)
    /\ IF HybridSelectable(hybrid_available, filtered_data)
       THEN \E d \in DiversityValues :
               /\ diversity' = d
               /\ content_based_weight' = Some(ContentWeight(d))
       ELSE UNCHANGED << diversity, content_based_weight >>
    /\ messages' = IF hybrid_available THEN messages
                   ELSE messages \cup {"hybrid artifacts not found"}
    /\ pc' = "button"
    /\ UNCHANGED << artifacts, song_input, artist_input, song_name, artist_name, k,
                    button, call, branch_reads, recommendations, rendered, ld, env,
                    tk >>

\* ------------------------------------------------------- the script: buttons

CollaborativeGlobals ==
    {"filtered_data", "interaction_matrix", "track_ids", "transformed_hybrid_data"}

\* A content branch that borrows the hybrid catalog and matrix when loaded.
ContentCallBorrowing ==
    [fn    |-> "content_recommendation",
     args  |-> [song_name |-> song_name, artist_name |-> artist_name,
                songs_data |-> IF filtered_data # None THEN filtered_data
                               ELSE songs_data,
                transformed_data |-> IF transformed_hybrid_data # None
                                     THEN transformed_hybrid_data
                                     ELSE transformed_data,
                k |-> k],
     reads |-> {"song_name", "artist_name", "songs_data", "transformed_data", "k",
                "filtered_data", "transformed_hybrid_data"}]

\* content_recommendation(song_name=..., artist_name=..., songs_data=...,
\* transformed_data=..., k=k) (app.py:230-236).
ContentCall ==
    [fn    |-> "content_recommendation",
     args  |-> [song_name |-> song_name, artist_name |-> artist_name,
                songs_data |-> songs_data, transformed_data |-> transformed_data,
                k |-> k],
     reads |-> {"song_name", "artist_name", "songs_data", "transformed_data", "k"}]

\* HybridRecommenderSystem(number_of_recommendations=k, weight_content_based=...)
\* .give_recommendations(...) (app.py:269-280).
HybridCall ==
    [fn    |-> "give_recommendations",
     args  |-> [number_of_recommendations |-> k,
                weight_content_based |-> content_based_weight,
                song_name |-> song_name, artist_name |-> artist_name,
                songs_data |-> filtered_data,
                transformed_matrix |-> transformed_hybrid_data,
                track_ids |-> track_ids,
                interaction_matrix |-> interaction_matrix],
     reads |-> {"k", "content_based_weight", "song_name", "artist_name",
                "filtered_data", "transformed_hybrid_data", "track_ids",
                "interaction_matrix"}]

\* What a call returns: the recommender's rows, or an exception.
Returned(c, echo) ==
    LET a == c.args
    IN  IF c.fn = "content_recommendation"
        THEN IF a.songs_data = None \/ a.transformed_data = None
                \/ ~Matches(Get(a.songs_data), a.song_name, a.artist_name)
             THEN [status |-> "crash", rows |-> <<>>]
             ELSE content_recommendation(a.song_name, a.artist_name,
                                         Get(a.songs_data), Get(a.transformed_data),
                                         a.k, echo)
        ELSE IF a.songs_data = None \/ a.transformed_matrix = None
                \/ a.track_ids = None \/ a.interaction_matrix = None
                \/ a.weight_content_based = None
                \/ ~Matches(Get(a.songs_data), a.song_name, a.artist_name)
             THEN [status |-> "crash", rows |-> <<>>]
             ELSE give_recommendations(a.song_name, a.artist_name, Get(a.songs_data),
                                       Get(a.transformed_matrix), Get(a.track_ids),
                                       Get(a.interaction_matrix),
                                       a.number_of_recommendations,
                                       Get(a.weight_content_based), echo)

\* The 'Get Recommendations' block (app.py:227-237, 263-280, 306-307): the branch
\* of the selected mode, the button, the membership test and the call.
Button ==
    /\ pc = "button"
    /\ \E pressed \in BOOLEAN, echo \in BOOLEAN :
          /\ button' = pressed
          /\ IF filtering_type = "Content-Based Filtering"
             THEN IF pressed
                  THEN IF InCatalog(Get(songs_data), song_name, artist_name)
                       THEN /\ call' = Some(ContentCall)
                            /\ branch_reads' = ContentCall.reads
                            /\ messages' = messages \cup {"Recommendations for"}
                            /\ recommendations' = Returned(ContentCall, echo).rows
                            /\ pc' = IF Returned(ContentCall, echo).status = "ok"
                                     THEN "display" ELSE "crashed"
                       ELSE /\ messages' = messages \cup {"Sorry, we couldn't find"}
                            /\ branch_reads' = {"songs_data", "song_name", "artist_name"}
                            /\ pc' = "done"
                            /\ UNCHANGED << call, recommendations >>
                  ELSE /\ pc' = "done"
                       /\ UNCHANGED << call, branch_reads, messages, recommendations >>
             ELSE IF filtering_type = "Hybrid Recommender System" /\ hybrid_available
             THEN IF pressed
                  THEN /\ call' = Some(HybridCall)
                       /\ branch_reads' = HybridCall.reads
                       /\ messages' = messages \cup {"Recommendations for"}
                       /\ recommendations' = Returned(HybridCall, echo).rows
                       /\ pc' = IF Returned(HybridCall, echo).status = "ok"
                                THEN "display" ELSE "crashed"
                  ELSE /\ pc' = "done"
                       /\ UNCHANGED << call, branch_reads, messages, recommendations >>
             ELSE IF filtering_type = "Hybrid Recommender System" /\ ~hybrid_available
             THEN /\ messages' = messages \cup {"Hybrid recommendations are unavailable"}
                  /\ pc' = "done"
                  /\ UNCHANGED << call, branch_reads, recommendations >>
             ELSE /\ pc' = "done"
                  /\ UNCHANGED << call, branch_reads, messages, recommendations >>
    /\ UNCHANGED << artifacts, widgets, rendered, ld, env, tk >>

\* A loop body that numbers the rows from the top: the first row it meets is
\* 'Currently Playing' whatever its label.
RenderRowByPosition(position, row) ==
    [header |-> IF position = 1 THEN "Currently Playing"
                ELSE IF position = 2 THEN "Next Up" ELSE "",
     number |-> position - 1,
     name   |-> Title(row.name),
     artist |-> Title(row.artist)]

\* One pass of the display loop (app.py:239-262, 282-305): the header chosen by
\* the row's index label, the names in title case.
RenderRow(position, row) ==
    [header |-> IF row.ind = 0 THEN "Currently Playing"
                ELSE IF row.ind = 1 THEN "Next Up" ELSE "",
     number |-> row.ind,
     name   |-> Title(row.name),
     artist |-> Title(row.artist)]

\* for ind, recommendation in recommendations.iterrows(): one row.
DisplayRow(fn) ==
    /\ pc = "display"
    /\ call # None /\ Get(call).fn = fn
    /\ LET i == Len(rendered) + 1
       IN  IF i <= Len(recommendations)
           THEN /\ song_name' = Title(recommendations[i].name)
                /\ artist_name' = Title(recommendations[i].artist)
                /\ rendered' = Append(rendered, RenderRow(i, recommendations[i]))
                /\ pc' = pc
           ELSE /\ pc' = "done"
                /\ UNCHANGED << song_name, artist_name, rendered >>
    /\ UNCHANGED << artifacts, song_input, artist_input, k, filtering_type,
                    diversity, content_based_weight, button, call, branch_reads,
                    recommendations, messages, ld, env, tk >>

\* The display loop of the content branch (app.py:238-262).
DisplayContentRow == DisplayRow("content_recommendation")

\* The display loop of the hybrid branch (app.py:281-305).
DisplayHybridRow == DisplayRow("give_recommendations")

\* ------------------------------------------------------------ specification

Init ==
    /\ Fresh
    /\ pc = "load_songs"
    /\ ld = IdleLoader
    /\ tk = IdleTopK

Next ==
    \/ LoadSongs
    \/ LoaderEnter
    \/ TryDownloadIfMissing
    \/ LoaderResume
    \/ LoaderReturn
    \/ LoadTransformed
    \/ LoadFiltered
    \/ LoadInteraction
    \/ LoadTransformedHybrid
    \/ LoadTrackIds
    \/ ReadInputs
    \/ SelectMode
    \/ Button
    \/ DisplayContentRow
    \/ DisplayHybridRow

Spec == Init /\ [][Next]_vars

\* ------------------------------------------------------- the top_k harness

TopKInit ==
    /\ Fresh
    /\ pc = "top_k"
    /\ ld = IdleLoader
    /\ \E n \in 1..MaxN :
          \E scores \in [1..n -> 0..MaxScore], ex \in 1..n, kk \in 1..MaxK :
             tk = [scores |-> scores, exclude_index |-> ex, k |-> kk,
                   result |-> <<>>, applied |-> FALSE]

ApplyTopK ==
    /\ pc = "top_k" /\ ~tk.applied
    /\ tk' = [tk EXCEPT !.result = top_k(tk.scores, tk.exclude_index, tk.k),
                        !.applied = TRUE]
    /\ UNCHANGED << pc, artifacts, widgets, outputs, ld, env >>

TopKNext == ApplyTopK

TopKSpec == TopKInit /\ [][TopKNext]_vars

\* ------------------------------------------------------------------ claims

Content == "Content-Based Filtering"
Hybrid == "Hybrid Recommender System"

ContentInvoked == call # None /\ Get(call).fn = "content_recommendation"
HybridInvoked == call # None /\ Get(call).fn = "give_recommendations"

\* The 'Get Recommendations' block has run.
ButtonDone == pc \in {"display", "done"} \/ call # None

\* The query as the code is meant to look it up.
QueryTitle == Lower(song_input)
QueryArtist == Lower(artist_input)

AllFourLoaded ==
    /\ filtered_data # None /\ interaction_matrix # None
    /\ transformed_hybrid_data # None /\ track_ids # None

\* C1: whenever content_recommendation is invoked, the catalog passed as
\* songs_data and the matrix passed as transformed_data have the same number
\* of rows: no misaligned pair gets past the load to a query.
C1_CatalogMatrixAligned ==
    ContentInvoked =>
        Len(Get(Get(call).args.songs_data)) = Len(Get(Get(call).args.transformed_data))

\* C2: a recommender is invoked only after a press and only if the lowercased
\* (title, artist) pair matches, jointly, a row of the catalog handed to it;
\* a press with no joint match in the catalog of the selected mode invokes
\* nothing and shows the "Sorry" message.
C2_InvokedOnlyOnJointMatch ==
    /\ call # None =>
          /\ button
          /\ Get(call).args.song_name = QueryTitle
          /\ Get(call).args.artist_name = QueryArtist
          /\ Get(call).args.songs_data = IF ContentInvoked THEN songs_data
                                         ELSE filtered_data
          /\ Get(call).args.songs_data # None
          /\ Matches(Get(Get(call).args.songs_data), QueryTitle, QueryArtist)
    /\ (ButtonDone /\ button /\ filtering_type = Content
          /\ ~Matches(Get(songs_data), QueryTitle, QueryArtist))
          => /\ call = None
             /\ "Sorry, we couldn't find" \in messages
             /\ pc = "done"
    /\ (ButtonDone /\ button /\ filtering_type = Hybrid)
          => /\ filtered_data # None
             /\ Matches(Get(filtered_data), QueryTitle, QueryArtist)

\* C2 witness: a press whose title matches a catalog row but whose artist does
\* not: the message, and no call.
C2_Witness ==
    /\ pc = "done" /\ button /\ call = None
    /\ "Sorry, we couldn't find" \in messages
    /\ \E i \in DOMAIN Get(songs_data) : Get(songs_data)[i].name = QueryTitle

\* C3: the hybrid recommender is invoked on a press if and only if all four
\* hybrid artifacts were loaded and the lowercased pair matches a row of the
\* filtered catalog; otherwise the content path handles the query, and the
\* hybrid recommender never receives a None artifact.
C3_HybridIffArtifactsAndMatch ==
    LET match == filtered_data # None
                 /\ Matches(Get(filtered_data), QueryTitle, QueryArtist)
    IN  /\ HybridInvoked =>
              /\ button /\ AllFourLoaded /\ match
              /\ Get(call).args.songs_data # None
              /\ Get(call).args.transformed_matrix # None
              /\ Get(call).args.track_ids # None
              /\ Get(call).args.interaction_matrix # None
        /\ (ButtonDone /\ button /\ AllFourLoaded /\ match) => HybridInvoked
        /\ (filtering_type # "" /\ ~(AllFourLoaded /\ match)) => filtering_type = Content
        /\ (ButtonDone /\ button /\ ~(AllFourLoaded /\ match)
              /\ Matches(Get(songs_data), QueryTitle, QueryArtist)) => ContentInvoked

\* C3 witness: a hybrid call that was displayed to the end.
C3_Witness == HybridInvoked /\ pc = "done" /\ AllFourLoaded

\* C4: the weight is 1 - d/10 (in tenths: 10 - d), strictly decreasing in the
\* slider value d, inside [0, 1] for every d of the slider; k is one of 5, 10,
\* 15, 20 and positive in every call.
C4_WeightInverseOfDiversity ==
    /\ \A d1, d2 \in DiversityValues : d1 < d2 => ContentWeight(d1) > ContentWeight(d2)
    /\ \A d \in DiversityValues : 0 <= ContentWeight(d) /\ ContentWeight(d) <= WeightScale
    /\ HybridInvoked =>
          /\ Get(call).args.weight_content_based # None
          /\ Get(Get(call).args.weight_content_based) = WeightScale - diversity
          /\ Get(Get(call).args.weight_content_based) \in 0..WeightScale
          /\ Get(call).args.number_of_recommendations \in {5, 10, 15, 20}
          /\ Get(call).args.number_of_recommendations > 0
    /\ ContentInvoked => Get(call).args.k \in {5, 10, 15, 20} /\ Get(call).args.k > 0

\* C4 witness: a hybrid call with the slider at its maximum, weight 0.1.
C4_Witness ==
    /\ HybridInvoked /\ diversity = 9
    /\ Get(call).args.weight_content_based = Some(1)
    /\ Get(call).args.number_of_recommendations = 20

C6_CaseInsensitiveResolution ==
    filtering_type # "" =>
        \A s2 \in Texts, a2 \in Texts :
            (Lower(s2) = Lower(song_input) /\ Lower(a2) = Lower(artist_input)) =>
                /\ SelectedMode(hybrid_available, filtered_data, NormalizeInput(s2),
                                NormalizeInput(a2)) = filtering_type
                /\ call # None =>
                      /\ Get(call).args.song_name = NormalizeInput(s2)
                      /\ Get(call).args.artist_name = NormalizeInput(a2)
                      /\ InCatalog(Get(Get(call).args.songs_data), NormalizeInput(s2),
                                   NormalizeInput(a2))
                /\ "Sorry, we couldn't find" \in messages =>
                      ~InCatalog(Get(songs_data), NormalizeInput(s2), NormalizeInput(a2))

\* C6 witness: a title typed in upper case is found.
C6_Witness == call # None /\ song_input = <<"A">> /\ pc = "done"

C8_TopKRanking ==
    tk.applied =>
        LET n == Len(tk.scores)
            r == tk.result
        IN  /\ Len(r) = Min(tk.k, n - 1)
            /\ \A i \in DOMAIN r : r[i] \in 1..n /\ r[i] # tk.exclude_index
            /\ \A i, j \in DOMAIN r :
                  i < j => \/ tk.scores[r[i]] > tk.scores[r[j]]
                           \/ tk.scores[r[i]] = tk.scores[r[j]] /\ r[i] < r[j]
            /\ tk.k >= n - 1 =>
                  {r[i] : i \in DOMAIN r} = (1..n) \ {tk.exclude_index}
            /\ \A c \in (1..n) \ {tk.exclude_index} :
                  c \notin {r[i] : i \in DOMAIN r} =>
                      \A i \in DOMAIN r : tk.scores[r[i]] >= tk.scores[c]

\* C8 witness: k beyond the candidates of a three-row catalog whose two
\* candidates tie; both are returned in row order.
C8_Witness ==
    /\ tk.applied /\ Len(tk.scores) = 3 /\ tk.k = 3 /\ tk.exclude_index = 2
    /\ tk.scores[1] = tk.scores[3]
    /\ tk.result = <<1, 3>>

====
